---- MODULE Spec2Model ----
(***************************************************************************)
(* Agent-Adventures: the ReAct weather planner's bounded planning loop     *)
(* (01-ReAct/01-Example/react_weather_agent.py) and the Fixed-Automation   *)
(* agents' run() and report files (00-Fixed-Automation/.../                *)
(* weather_agent.py, dino_agent.py), and the LLM-Enhanced agent's query    *)
(* boundary and conversation history (00-LLM-Enhanced/00-Example/          *)
(* llm_weather_agent.py).                                                  *)
(*                                                                         *)
(* Conventions.  Confidence is a float in the code; here it is counted in  *)
(* tenths (0.5 is 5).  The numeric confidences the endpoint supplies are   *)
(* chosen where Python's float arithmetic and the tenths agree on every    *)
(* comparison the code makes (>= 0.7, min with 1.0, max with 0.0).         *)
(* A Python dict is a set of <<key, value>> pairs, a Python list is a      *)
(* sequence, a key that is not in a dict is the string Absent.             *)
(***************************************************************************)
EXTENDS Integers, Sequences, FiniteSets, TLC

VARIABLES
  pc,                 \* position of the caller in plan_weather_activity
  session,            \* number of plan_weather_activity calls started
  task_description,   \* argument of the running call
  task_analysis,      \* local of plan_weather_activity
  plan,               \* local: the plan dict of the running call
  reasoning,          \* local of the loop: result of the last reasoning step
  planning_iteration, \* self.planning_iteration
  planning_history,   \* self.planning_history
  current_plan,       \* self.current_plan
  heap,               \* the completed_steps list objects, one per plan dict
  templates,          \* the module-level dict PLANNING_TEMPLATES
  calls,              \* generation-endpoint requests made by the running call
  analysis_call,      \* how the endpoint answered the task-analysis request
  reasoning_call,     \* how the endpoint answered the last reasoning request
  cycles,             \* loop bodies started by the running call
  exit,               \* how the running call left the while loop
  last_action,        \* the action result of the last loop body
  error,              \* exception that left plan_weather_activity, or NoError
  clock,              \* datetime.datetime.now(), in ticks
  files,              \* report files on disk: filename -> content
  saved,              \* log of the save_report calls a script makes itself
  run,                \* the running call of a reporter agent's run()
  chat,               \* the LLMWeatherAgent object and its running call
  twin                \* two planner agents that are fed the same outcomes

vars == <<pc, session, task_description, task_analysis, plan, reasoning,
          planning_iteration, planning_history, current_plan, heap,
          templates, calls,
          analysis_call, reasoning_call, cycles, exit, last_action, error,
          clock, files, saved, run, chat, twin>>

reactVars == <<pc, session, task_description, task_analysis, plan, reasoning,
               planning_iteration, planning_history, current_plan, heap,
               templates, calls, analysis_call, reasoning_call, cycles, exit,
               last_action, error>>

reportVars == <<files, saved, run>>

----------------------------------------------------------------------------
(* Bounds of the model *)

MaxSessions == 2

MaxClock == 4

MaxSaves == 3

----------------------------------------------------------------------------
(* 01-ReAct/01-Example/config.py *)

\* a loop bound that is one too large
MaxPlanningIterations_OneMore == 5 + 1

MAX_PLANNING_ITERATIONS == 5

PLANNING_CONFIDENCE_THRESHOLD == 7

DEFAULT_CITY == "London"

\* templates of which one has four steps only
PlanningTemplates_FourSteps ==
  [outdoor_activity |->
     [steps |-> <<"Analyze weather conditions",
                  "Identify suitable activities",
                  "Plan activity timeline",
                  "Prepare contingency plans",
                  "Finalize activity plan">>],
   travel_planning |->
     [steps |-> <<"Research destination weather",
                  "Plan weather-appropriate activities",
                  "Pack appropriate clothing",
                  "Plan indoor alternatives">>],
   daily_schedule |->
     [steps |-> <<"Check weather forecast",
                  "Optimize outdoor activities",
                  "Schedule indoor alternatives",
                  "Plan weather-dependent tasks",
                  "Create flexible schedule">>]]

PLANNING_TEMPLATES ==
  [outdoor_activity |->
     [steps |-> <<"Analyze weather conditions",
                  "Identify suitable activities",
                  "Plan activity timeline",
                  "Prepare contingency plans",
                  "Finalize activity plan">>],
   travel_planning |->
     [steps |-> <<"Research destination weather",
                  "Plan weather-appropriate activities",
                  "Pack appropriate clothing",
                  "Plan indoor alternatives",
                  "Create flexible itinerary">>],
   daily_schedule |->
     [steps |-> <<"Check weather forecast",
                  "Optimize outdoor activities",
                  "Schedule indoor alternatives",
                  "Plan weather-dependent tasks",
                  "Create flexible schedule">>]]

----------------------------------------------------------------------------
(* Python strings: str.lower() and the substring test `x in s`.  TLC's     *)
(* strings are atomic, so the literals the code tests are spelled out.     *)

Chars(s) ==
  CASE s = "" -> <<>>
    [] s = "Analyze weather conditions" -> <<"A","n","a","l","y","z","e"," ","w","e","a","t","h","e","r"," ","c","o","n","d","i","t","i","o","n","s">>
    [] s = "Identify suitable activities" -> <<"I","d","e","n","t","i","f","y"," ","s","u","i","t","a","b","l","e"," ","a","c","t","i","v","i","t","i","e","s">>
    [] s = "Plan activity timeline" -> <<"P","l","a","n"," ","a","c","t","i","v","i","t","y"," ","t","i","m","e","l","i","n","e">>
    [] s = "Prepare contingency plans" -> <<"P","r","e","p","a","r","e"," ","c","o","n","t","i","n","g","e","n","c","y"," ","p","l","a","n","s">>
    [] s = "Finalize activity plan" -> <<"F","i","n","a","l","i","z","e"," ","a","c","t","i","v","i","t","y"," ","p","l","a","n">>
    [] s = "Research destination weather" -> <<"R","e","s","e","a","r","c","h"," ","d","e","s","t","i","n","a","t","i","o","n"," ","w","e","a","t","h","e","r">>
    [] s = "Plan weather-appropriate activities" -> <<"P","l","a","n"," ","w","e","a","t","h","e","r","-","a","p","p","r","o","p","r","i","a","t","e"," ","a","c","t","i","v","i","t","i","e","s">>
    [] s = "Pack appropriate clothing" -> <<"P","a","c","k"," ","a","p","p","r","o","p","r","i","a","t","e"," ","c","l","o","t","h","i","n","g">>
    [] s = "Plan indoor alternatives" -> <<"P","l","a","n"," ","i","n","d","o","o","r"," ","a","l","t","e","r","n","a","t","i","v","e","s">>
    [] s = "Create flexible itinerary" -> <<"C","r","e","a","t","e"," ","f","l","e","x","i","b","l","e"," ","i","t","i","n","e","r","a","r","y">>
    [] s = "Check weather forecast" -> <<"C","h","e","c","k"," ","w","e","a","t","h","e","r"," ","f","o","r","e","c","a","s","t">>
    [] s = "Optimize outdoor activities" -> <<"O","p","t","i","m","i","z","e"," ","o","u","t","d","o","o","r"," ","a","c","t","i","v","i","t","i","e","s">>
    [] s = "Schedule indoor alternatives" -> <<"S","c","h","e","d","u","l","e"," ","i","n","d","o","o","r"," ","a","l","t","e","r","n","a","t","i","v","e","s">>
    [] s = "Plan weather-dependent tasks" -> <<"P","l","a","n"," ","w","e","a","t","h","e","r","-","d","e","p","e","n","d","e","n","t"," ","t","a","s","k","s">>
    [] s = "Create flexible schedule" -> <<"C","r","e","a","t","e"," ","f","l","e","x","i","b","l","e"," ","s","c","h","e","d","u","l","e">>
    [] s = "WEATHER ACTIVITY" -> <<"W","E","A","T","H","E","R"," ","A","C","T","I","V","I","T","Y">>
    [] s = "Contingency Activity" -> <<"C","o","n","t","i","n","g","e","n","c","y"," ","A","c","t","i","v","i","t","y">>
    [] s = "Contingency" -> <<"C","o","n","t","i","n","g","e","n","c","y">>
    [] s = "Pack" -> <<"P","a","c","k">>
    [] s = "weather_forecast" -> <<"w","e","a","t","h","e","r","_","f","o","r","e","c","a","s","t">>
    [] s = "unknown" -> <<"u","n","k","n","o","w","n">>
    [] s = "cooking_pasta" -> <<"c","o","o","k","i","n","g","_","p","a","s","t","a">>
    [] s = "Medical Advice on sunburn" -> <<"M","e","d","i","c","a","l"," ","A","d","v","i","c","e"," ","o","n"," ","s","u","n","b","u","r","n">>
    [] s = "medical advice" -> <<"m","e","d","i","c","a","l"," ","a","d","v","i","c","e">>
    [] s = "financial advice" -> <<"f","i","n","a","n","c","i","a","l"," ","a","d","v","i","c","e">>
    [] s = "legal advice" -> <<"l","e","g","a","l"," ","a","d","v","i","c","e">>
    [] s = "personal information" -> <<"p","e","r","s","o","n","a","l"," ","i","n","f","o","r","m","a","t","i","o","n">>
    [] s = "inappropriate content" -> <<"i","n","a","p","p","r","o","p","r","i","a","t","e"," ","c","o","n","t","e","n","t">>
    [] s = "off-topic queries" -> <<"o","f","f","-","t","o","p","i","c"," ","q","u","e","r","i","e","s">>
    [] s = "temperature" -> <<"t","e","m","p","e","r","a","t","u","r","e">>
    [] s = "rain" -> <<"r","a","i","n">>
    [] s = "sunny" -> <<"s","u","n","n","y">>
    [] s = "cloudy" -> <<"c","l","o","u","d","y">>
    [] s = "wind" -> <<"w","i","n","d">>
    [] s = "humidity" -> <<"h","u","m","i","d","i","t","y">>
    [] s = "forecast" -> <<"f","o","r","e","c","a","s","t">>
    [] s = "climate" -> <<"c","l","i","m","a","t","e">>
    [] s = "precipitation" -> <<"p","r","e","c","i","p","i","t","a","t","i","o","n">>
    [] s = "Sunny." -> <<"S","u","n","n","y",".">>
    [] s = "I'm sorry, I couldn't generate a response. Please try again." -> <<"I","'","m"," ","s","o","r","r","y",","," ","I"," ","c","o","u","l","d","n","'","t"," ","g","e","n","e","r","a","t","e"," ","a"," ","r","e","s","p","o","n","s","e","."," ","P","l","e","a","s","e"," ","t","r","y"," ","a","g","a","i","n",".">>
    [] s = "weather" -> <<"w","e","a","t","h","e","r">>
    [] s = "activity" -> <<"a","c","t","i","v","i","t","y">>
    [] s = "contingency" -> <<"c","o","n","t","i","n","g","e","n","c","y">>
    [] s = "outdoor" -> <<"o","u","t","d","o","o","r">>
    [] s = "suitable_for_outdoor_activities" -> <<"s","u","i","t","a","b","l","e","_","f","o","r","_","o","u","t","d","o","o","r","_","a","c","t","i","v","i","t","i","e","s">>
    [] s = "consider_indoor_alternatives" -> <<"c","o","n","s","i","d","e","r","_","i","n","d","o","o","r","_","a","l","t","e","r","n","a","t","i","v","e","s">>

UpperCase == <<"A","B","C","D","E","F","G","H","I","J","K","L","M",
               "N","O","P","Q","R","S","T","U","V","W","X","Y","Z">>

LowerCase == <<"a","b","c","d","e","f","g","h","i","j","k","l","m",
               "n","o","p","q","r","s","t","u","v","w","x","y","z">>

LowerChar(c) ==
  IF \E i \in 1..26 : UpperCase[i] = c
    THEN LowerCase[CHOOSE i \in 1..26 : UpperCase[i] = c]
    ELSE c

Lower(cs) == [i \in 1..Len(cs) |-> LowerChar(cs[i])]

Contains(sub, cs) ==
  \E i \in 0..(Len(cs) - Len(sub)) : SubSeq(cs, i + 1, i + Len(sub)) = sub

\* `word in step.lower()`
InLower(word, step) == Contains(Chars(word), Lower(Chars(step)))

\* `word in s`
In(word, s) == Contains(Chars(word), Chars(s))

----------------------------------------------------------------------------
(* Values exchanged with the generation endpoint.                          *)
(* A response text is given by what json.loads makes of it: wf says        *)
(* whether it is valid JSON and val is the value it denotes.               *)

Absent == "<absent>"

\* a JSON list given where the code needs a hashable value
Unhashable == "<list>"

NoError == "<none>"

Number(n) == [kind |-> "number", tenths |-> n]

NonNumber(k) == [kind |-> k, tenths |-> 0]

NotJson == [wf |-> FALSE, val |-> [json |-> "invalid"]]

JsonText(v) == [wf |-> TRUE, val |-> v]

NonObject(k) == [json |-> k]

AnalysisObject(tt, conf, loc) ==
  [json |-> "object", task_type |-> tt, weather_requirements |-> "sunny",
   time_horizon |-> 2, location |-> loc, constraints |-> "budget",
   success_criteria |-> "fun", confidence |-> conf]

ReasoningObject ==
  [json |-> "object", current_status |-> "on_track",
   issues_identified |-> <<"none">>, next_priorities |-> <<"next_step">>,
   reasoning |-> "llm", confidence |-> Number(8)]

\* task descriptions handed to plan_weather_activity (main, lines 727-731)
Tasks ==
  {"Plan a weekend outdoor activity based on weather conditions",
   "Create a travel itinerary considering weather forecasts"}

TaskTypeValues ==
  {"outdoor_activity", "travel_planning", "daily_schedule",
   "wedding_planning", Absent, Unhashable}

ConfidenceValues ==
  {Number(-3), Number(1), Number(12),
   NonNumber("absent"), NonNumber("string")}

\* the requests.post outcomes of one generation call
Failures ==
  {[kind |-> k, text |-> NotJson] :
     k \in {"connection_error", "timeout", "status_500"}}

Ok(text) == [kind |-> "status_200", text |-> text]

\* every task_type with the confidence left out, every confidence with the
\* outdoor_activity template, and a template whose steps never fill the
\* activities with a confidence above and below the threshold
AnalysisObjects ==
  {AnalysisObject(tt, NonNumber("absent"), "Paris") : tt \in TaskTypeValues}
  \cup {AnalysisObject("outdoor_activity", c, "Paris") :
          c \in ConfidenceValues}
  \cup {AnalysisObject("travel_planning", c, Absent) :
          c \in {Number(1), Number(12)}}

AnalysisOutcomes ==
  Failures
  \cup {Ok(NotJson)}
  \cup {Ok(JsonText(NonObject(k))) : k \in {"list", "number", "null"}}
  \cup {Ok(JsonText(v)) : v \in AnalysisObjects}

ReasoningOutcomes ==
  Failures
  \cup {Ok(NotJson), Ok(JsonText(NonObject("list"))),
        Ok(JsonText(ReasoningObject))}

----------------------------------------------------------------------------
(* react_weather_agent.py: _call_ollama_api, json.loads, _analyze_task,    *)
(* _reason_about_current_state                                             *)

\* a client that repeats a failed request once
PostRequests_RetryOnFailure(outcome) ==
  IF outcome.kind # "status_200" THEN 2 ELSE 1

\* requests.post calls one _call_ollama_api makes: the single post of lines
\* 649-653, outside any loop
PostRequests(outcome) == 1

\* every failure of requests.post, and a status other than 200, is raised
\* as an Exception; a 200 returns the "response" field of the body
CallOllamaApi(outcome) ==
  IF outcome.kind = "status_200"
    THEN [raised |-> FALSE, text |-> outcome.text]
    ELSE [raised |-> TRUE, text |-> NotJson]

JsonLoads(text) ==
  IF text.wf
    THEN [raised |-> FALSE, val |-> text.val]
    ELSE [raised |-> TRUE, val |-> [json |-> "invalid"]]

DefaultAnalysis ==
  [json |-> "object", task_type |-> "general_weather_planning",
   weather_requirements |-> "moderate_conditions", time_horizon |-> 3,
   location |-> DEFAULT_CITY, constraints |-> "none",
   success_criteria |-> "successful_activity_completion",
   confidence |-> Number(5)]

DefaultReasoning ==
  [json |-> "object", current_status |-> "planning_in_progress",
   issues_identified |-> <<>>, next_priorities |-> <<"continue_planning">>,
   reasoning |-> "Basic planning continuation", confidence |-> Number(5)]

\* what the endpoint did, as the caller sees it
OutcomeClass(outcome) ==
  IF outcome.kind # "status_200" THEN "raised"
  ELSE IF outcome.text.wf THEN "json"
  ELSE "not_json"

\* the try block: response = self._call_ollama_api(...);
\* value = json.loads(response)
TryParse(outcome) ==
  LET r == CallOllamaApi(outcome) IN
  IF r.raised
    THEN [raised |-> TRUE, error |-> "Exception", val |-> [json |-> "none"]]
    ELSE LET p == JsonLoads(r.text) IN
         IF p.raised
           THEN [raised |-> TRUE, error |-> "JSONDecodeError",
                 val |-> [json |-> "none"]]
           ELSE [raised |-> FALSE, error |-> NoError, val |-> p.val]

\* except Exception: return the default record
Returned(v) == [raised |-> FALSE, error |-> NoError, val |-> v]

\* an except clause that only catches the endpoint's failures: unparseable
\* text gets through
AnalyzeTaskResult_BadJsonEscapes(description, outcome) ==
  LET t == TryParse(outcome) IN
  IF t.raised /\ t.error = "Exception"
    THEN Returned(DefaultAnalysis)
    ELSE t

AnalyzeTaskResult(description, outcome) ==
  LET t == TryParse(outcome) IN
  IF t.raised THEN Returned(DefaultAnalysis) ELSE Returned(t.val)

\* no try/except around the reasoning call
ReasonAboutCurrentState_NoCatch(outcome) == TryParse(outcome)

ReasonAboutCurrentState(outcome) ==
  LET t == TryParse(outcome) IN
  IF t.raised THEN Returned(DefaultReasoning) ELSE Returned(t.val)

----------------------------------------------------------------------------
(* react_weather_agent.py: _create_initial_plan                            *)

NoTime == -1

NoPlan ==
  [task_type |-> Absent, status |-> Absent, steps |-> <<>>,
   current_step |-> 0, completed_steps |-> 0, weather_conditions |-> {},
   activities |-> <<>>, contingency_plans |-> <<>>,
   confidence |-> NonNumber("absent"), created_at |-> NoTime,
   completed_at |-> NoTime, summary |-> Absent]

\* dict.get(key, default) on a parsed JSON object
Get(d, key, default) == IF d[key] = Absent THEN default ELSE d[key]

GetConfidence(d, default) ==
  IF d.confidence.kind = "absent" THEN default ELSE d.confidence

\* a fallback to the wrong template
TemplateFor_WrongFallback(task_type) ==
  IF task_type \in DOMAIN templates
    THEN templates[task_type]
    ELSE templates["travel_planning"]

\* PLANNING_TEMPLATES.get(task_type, PLANNING_TEMPLATES["outdoor_activity"])
TemplateFor(task_type) ==
  IF task_type \in DOMAIN templates
    THEN templates[task_type]
    ELSE templates["outdoor_activity"]

\* the exception _create_initial_plan raises, if any: a JSON value that is
\* no object has no .get (line 144); a list cannot be looked up in a dict
\* (line 147)
CreateInitialPlanError(analysis) ==
  IF analysis.json # "object" THEN "AttributeError"
  ELSE IF analysis.task_type = Unhashable THEN "TypeError"
  ELSE NoError

\* ref is the fresh completed_steps list, now the clock reading
CreateInitialPlan(analysis, ref, now) ==
  LET task_type == Get(analysis, "task_type", "general_weather_planning")
      template  == TemplateFor(task_type)
  IN  [task_type |-> task_type,
       status |-> "planning",
       steps |-> template.steps,
       current_step |-> 0,
       completed_steps |-> ref,
       weather_conditions |-> {},
       activities |-> <<>>,
       contingency_plans |-> <<>>,
       confidence |-> GetConfidence(analysis, Number(5)),
       created_at |-> now,
       completed_at |-> NoTime,
       summary |-> Absent]

----------------------------------------------------------------------------
(* react_weather_agent.py: the mock data sources and the step handlers     *)

GetWeatherData(location) ==
  [location |-> location, temperature |-> 22, humidity |-> 65,
   wind_speed |-> 10, description |-> "partly cloudy"]

\* "*" is the degree sign of the source
AnalyzeWeatherConditions(weather_data) ==
  {<<"overall_condition", weather_data.description>>,
   <<"temperature_range", ToString(weather_data.temperature) \o "*C">>,
   <<"humidity", ToString(weather_data.humidity) \o "%">>,
   <<"wind_conditions", ToString(weather_data.wind_speed) \o " km/h">>,
   <<"planning_recommendation",
     IF weather_data.temperature > 15
       THEN "suitable_for_outdoor_activities"
       ELSE "consider_indoor_alternatives">>}

\* dict.get(key, default) on a dict of pairs
GetPair(d, key, default) ==
  IF \E kv \in d : kv[1] = key
    THEN (CHOOSE kv \in d : kv[1] = key)[2]
    ELSE default

\* `"outdoor" in recommendation`, for every recommendation there is
MentionsOutdoor ==
  [r \in {"", "suitable_for_outdoor_activities",
          "consider_indoor_alternatives"} |-> In("outdoor", r)]

SelectWeatherAppropriateActivities(weather_conditions) ==
  LET recommendation ==
        GetPair(weather_conditions, "planning_recommendation", "")
  IN  IF MentionsOutdoor[recommendation]
        THEN <<"hiking", "picnic", "outdoor_photography", "gardening">>
        ELSE <<"indoor_museum", "cooking", "reading", "indoor_exercise">>

CreateContingencyPlans ==
  <<"Indoor alternative activities",
    "Weather-appropriate clothing recommendations",
    "Flexible timing for outdoor activities",
    "Emergency weather response plan">>

\* an action result; the keys a handler does not set are empty
Result(status, success, message, wc, acts, cont) ==
  [status |-> status, success |-> success, message |-> message,
   weather_conditions |-> wc, activities |-> acts,
   contingency_plans |-> cont]

\* each handler gives the plan after it and its result
ExecuteWeatherStep(p, analysis) ==
  LET weather_data ==
        GetWeatherData(Get(analysis, "location", DEFAULT_CITY))
      weather_analysis == AnalyzeWeatherConditions(weather_data)
  IN  [plan |-> [p EXCEPT !.weather_conditions = weather_analysis],
       result |-> Result("weather_analyzed", TRUE,
                         "Weather conditions analyzed successfully",
                         weather_analysis, <<>>, <<>>)]

ExecuteActivityStep(p, analysis) ==
  LET activities == SelectWeatherAppropriateActivities(p.weather_conditions)
  IN  [plan |-> [p EXCEPT !.activities = activities],
       result |-> Result("activities_planned", TRUE,
                         "Activities planned successfully",
                         {}, activities, <<>>)]

\* a contingency step that consults the plan's creation time
ExecuteContingencyStep_ByCreationTime(p, analysis) ==
  LET contingency_plans ==
        IF p.created_at % 2 = 0
          THEN CreateContingencyPlans
          ELSE <<"Indoor alternative activities">>
  IN  [plan |-> [p EXCEPT !.contingency_plans = contingency_plans],
       result |-> Result("contingencies_planned", TRUE,
                         "Contingency plans created successfully",
                         {}, <<>>, contingency_plans)]

ExecuteContingencyStep(p, analysis) ==
  LET contingency_plans == CreateContingencyPlans
  IN  [plan |-> [p EXCEPT !.contingency_plans = contingency_plans],
       result |-> Result("contingencies_planned", TRUE,
                         "Contingency plans created successfully",
                         {}, <<>>, contingency_plans)]

ExecuteGeneralStep(step, p, analysis) ==
  [plan |-> p,
   result |-> Result("step_completed", TRUE,
                     "Step '" \o step \o "' completed successfully",
                     {}, <<>>, <<>>)]

\* a dispatch that tests "activity" before "weather"
StepKind_ActivityFirst(step) ==
  IF InLower("activity", step) THEN "activity"
  ELSE IF InLower("weather", step) THEN "weather"
  ELSE IF InLower("contingency", step) THEN "contingency"
  ELSE "general"

\* the handler chosen by the first matching substring (lines 315-322)
StepKind(step) ==
  IF InLower("weather", step) THEN "weather"
  ELSE IF InLower("activity", step) THEN "activity"
  ELSE IF InLower("contingency", step) THEN "contingency"
  ELSE "general"

\* every step name of every template, and the handler each one goes to
AllSteps ==
  UNION {{PLANNING_TEMPLATES[t].steps[i] :
            i \in 1..Len(PLANNING_TEMPLATES[t].steps)} :
           t \in DOMAIN PLANNING_TEMPLATES}

StepKindOf == [step \in AllSteps |-> StepKind(step)]

----------------------------------------------------------------------------
(* react_weather_agent.py: one pass of the planning loop                   *)

Min(a, b) == IF a < b THEN a ELSE b

Max(a, b) == IF a > b THEN a ELSE b

NoResult == Result(Absent, FALSE, Absent, {}, <<>>, <<>>)

DetermineNextAction(p) ==
  LET current_step == p.current_step
      total_steps  == Len(p.steps)
  IN  IF current_step < total_steps
        THEN [type |-> "execute_step", step |-> p.steps[current_step + 1],
              step_index |-> current_step, priority |-> "high"]
        ELSE [type |-> "finalize_plan", step |-> Absent, step_index |-> -1,
              priority |-> "high"]

\* an executor that crosses the executed step off the plan's step list
ExecutePlanningStep_CrossesOffStep(action, p, analysis, h, now) ==
  LET step == action.step
      step_index == action.step_index
      kind == StepKindOf[step]
      done == CASE kind = "weather" -> ExecuteWeatherStep(p, analysis)
                [] kind = "activity" -> ExecuteActivityStep(p, analysis)
                [] kind = "contingency" -> ExecuteContingencyStep(p, analysis)
                [] OTHER -> ExecuteGeneralStep(step, p, analysis)
      record == [step |-> step, step_index |-> step_index,
                 result |-> done.result, completed_at |-> now]
  IN  [raised |-> FALSE, error |-> NoError,
       plan |-> [done.plan EXCEPT !.current_step = step_index + 1,
                                  !.steps[step_index + 1] = "done"],
       heap |-> [h EXCEPT ![p.completed_steps] = Append(@, record)],
       result |-> done.result]

\* an executor that leaves the step index where it was
ExecutePlanningStep_KeepsIndex(action, p, analysis, h, now) ==
  LET step == action.step
      step_index == action.step_index
      kind == StepKindOf[step]
      done == CASE kind = "weather" -> ExecuteWeatherStep(p, analysis)
                [] kind = "activity" -> ExecuteActivityStep(p, analysis)
                [] kind = "contingency" -> ExecuteContingencyStep(p, analysis)
                [] OTHER -> ExecuteGeneralStep(step, p, analysis)
      record == [step |-> step, step_index |-> step_index,
                 result |-> done.result, completed_at |-> now]
  IN  [raised |-> FALSE, error |-> NoError,
       plan |-> done.plan,
       heap |-> [h EXCEPT ![p.completed_steps] = Append(@, record)],
       result |-> done.result]

\* an executor that writes the new step index into the record
ExecutePlanningStep_RecordsNextIndex(action, p, analysis, h, now) ==
  LET step == action.step
      step_index == action.step_index
      kind == StepKindOf[step]
      done == CASE kind = "weather" -> ExecuteWeatherStep(p, analysis)
                [] kind = "activity" -> ExecuteActivityStep(p, analysis)
                [] kind = "contingency" -> ExecuteContingencyStep(p, analysis)
                [] OTHER -> ExecuteGeneralStep(step, p, analysis)
      record == [step |-> step, step_index |-> step_index + 1,
                 result |-> done.result, completed_at |-> now]
  IN  [raised |-> FALSE, error |-> NoError,
       plan |-> [done.plan EXCEPT !.current_step = step_index + 1],
       heap |-> [h EXCEPT ![p.completed_steps] = Append(@, record)],
       result |-> done.result]

\* the handler's effect, then the completed_steps record and the step index
ExecutePlanningStep(action, p, analysis, h, now) ==
  LET step == action.step
      step_index == action.step_index
      kind == StepKindOf[step]
      done == CASE kind = "weather" -> ExecuteWeatherStep(p, analysis)
                [] kind = "activity" -> ExecuteActivityStep(p, analysis)
                [] kind = "contingency" -> ExecuteContingencyStep(p, analysis)
                [] OTHER -> ExecuteGeneralStep(step, p, analysis)
      record == [step |-> step, step_index |-> step_index,
                 result |-> done.result, completed_at |-> now]
  IN  [raised |-> FALSE, error |-> NoError,
       plan |-> [done.plan EXCEPT !.current_step = step_index + 1],
       heap |-> [h EXCEPT ![p.completed_steps] = Append(@, record)],
       result |-> done.result]

\* "finalize_plan" calls self._finalize_planning, which the class does not
\* define: AttributeError
ExecuteAction(action, p, analysis, h, now) ==
  IF action.type = "execute_step"
    THEN ExecutePlanningStep(action, p, analysis, h, now)
  ELSE IF action.type = "finalize_plan"
    THEN [raised |-> TRUE, error |-> "AttributeError", plan |-> p,
          heap |-> h, result |-> NoResult]
  ELSE [raised |-> FALSE, error |-> NoError, plan |-> p, heap |-> h,
        result |-> Result("unknown_action", FALSE, Absent, {}, <<>>, <<>>)]

\* the two status values swapped
UpdateStatus_Swapped(success) ==
  IF success THEN "planning_failed" ELSE "planning_in_progress"

UpdateStatus(success) ==
  IF success THEN "planning_in_progress" ELSE "planning_failed"

UpdateConfidence(confidence, success) ==
  IF success
    THEN Min(confidence + 1, 10)
    ELSE Max(confidence - 1, 0)

\* plan.copy() is a shallow copy: the snapshot holds the same
\* completed_steps list as the plan
Snapshot(p) == p

\* the status is set first; the confidence arithmetic raises TypeError on a
\* confidence that is no number, before the history entry is appended
UpdatePlanBasedOnResult(p, action_result, iteration, now) ==
  LET success == action_result.success
      p1 == [p EXCEPT !.status = UpdateStatus(success)]
  IN  IF p1.confidence.kind # "number"
        THEN [raised |-> TRUE, error |-> "TypeError", plan |-> p1,
              entries |-> <<>>]
        ELSE LET p2 == [p1 EXCEPT !.confidence =
                          Number(UpdateConfidence(@.tenths, success))]
             IN  [raised |-> FALSE, error |-> NoError, plan |-> p2,
                  entries |-> <<[iteration |-> iteration,
                                 action_result |-> action_result,
                                 plan_state |-> Snapshot(p2),
                                 timestamp |-> now]>>]

\* a completion check that forgets the step count
IsPlanningComplete_IgnoresSteps(p) ==
  /\ p.confidence.tenths >= PLANNING_CONFIDENCE_THRESHOLD
  /\ p.weather_conditions # {}
  /\ p.activities # <<>>
  /\ p.contingency_plans # <<>>

IsPlanningComplete(p) ==
  LET all_steps_completed == p.current_step >= Len(p.steps)
      confidence_met == p.confidence.tenths >= PLANNING_CONFIDENCE_THRESHOLD
      has_weather == p.weather_conditions # {}
      has_activities == p.activities # <<>>
      has_contingencies == p.contingency_plans # <<>>
      components_complete ==
        has_weather /\ has_activities /\ has_contingencies
  IN  all_steps_completed /\ confidence_met /\ components_complete

\* the fields the summary text prints (the dict and list reprs are left out)
GeneratePlanSummary(p, h) ==
  "Task Type: " \o p.task_type \o " Status: " \o p.status
  \o " Confidence: " \o ToString(p.confidence.tenths * 10) \o ".0%"
  \o " Steps Completed: " \o ToString(Len(h[p.completed_steps]))

\* a finalization that marks only a complete plan as completed
FinalizePlan_OnlyWhenComplete(p, h, now) ==
  IF IsPlanningComplete(p)
    THEN LET p1 == [p EXCEPT !.status = "completed", !.completed_at = now]
         IN  [p1 EXCEPT !.summary = GeneratePlanSummary(p1, h)]
    ELSE p

FinalizePlan(p, h, now) ==
  LET p1 == [p EXCEPT !.status = "completed", !.completed_at = now]
  IN  [p1 EXCEPT !.summary = GeneratePlanSummary(p1, h)]

----------------------------------------------------------------------------
(* 00-Fixed-Automation: save_report of WeatherReporterAgent and of         *)
(* DinosaurReporterAgent                                                   *)

\* clock ticks in one second
TicksPerSecond == 2

\* self.output_dir; config.py of these examples sets it
OUTPUT_DIR == "OUTPUT_DIR"

Agents == {"weather", "dinosaur"}

Reports == {"report A", "report B"}

\* a timestamp that keeps the fraction of the second
Strftime_Ticks(now) == ToString(now)

\* datetime.datetime.now().strftime("%Y%m%d_%H%M%S"): the clock reading cut
\* to whole seconds
Strftime(now) == ToString(now \div TicksPerSecond)

Filename(agent, now) == agent \o "_report_" \o Strftime(now) \o ".txt"

\* os.path.join(self.output_dir, filename)
Filepath(agent, now) == OUTPUT_DIR \o "/" \o Filename(agent, now)

\* open(filepath, 'w'); f.write(report): the file is created or replaced
WriteFile(fs, path, content) ==
  {f \in fs : f[1] # path} \cup {<<path, content>>}

----------------------------------------------------------------------------
(* 00-Fixed-Automation: the steps of run() of WeatherReporterAgent and of  *)
(* DinosaurReporterAgent                                                   *)

\* runs of one agent process
MaxRuns == 2

\* None where the code expects a str
NoneValue == "<None>"

\* bodies of a 200 answer of the data API: the JSON object the parser
\* expects (its description a string, as the report template needs it), an
\* object without its keys, a JSON list, text that is no JSON
DataBodies == {"well_formed", "missing_key", "not_object", "not_json"}

\* outcomes of the requests.get of the data API
FetchOutcomes ==
  {[kind |-> "status_200", body |-> b] : b \in DataBodies}
  \cup {[kind |-> k, body |-> "none"] :
          k \in {"connection_error", "timeout", "status_404"}}

\* bodies of a 200 answer of the generation endpoint
SummaryBodies == {"response", "no_response_key", "response_null", "not_json"}

\* outcomes of the requests.post of the generation endpoint
SummaryOutcomes ==
  {[kind |-> "status_200", body |-> b] : b \in SummaryBodies}
  \cup {[kind |-> k, body |-> "none"] :
          k \in {"connection_error", "timeout", "status_500"}}

\* fetch_weather_data, fetch_dino_data: one requests.get; a connection
\* error or timeout propagates, a status other than 200 raises Exception,
\* response.json() raises on a body that is no JSON
FetchData(agent, outcome) ==
  IF outcome.kind \in {"connection_error", "timeout"}
    THEN [raised |-> TRUE, error |-> "RequestException", data |-> "none"]
  ELSE IF outcome.kind # "status_200"
    THEN [raised |-> TRUE, error |-> "Exception", data |-> "none"]
  ELSE IF outcome.body = "not_json"
    THEN [raised |-> TRUE, error |-> "JSONDecodeError", data |-> "none"]
  ELSE [raised |-> FALSE, error |-> NoError, data |-> outcome.body]

NoParsed == [name |-> "", timestamp |-> NoTime]

\* parse_weather_data indexes the keys it expects (KeyError, or TypeError on
\* a list); parse_dino_data reads them with .get and a default
\* (AttributeError on a list); both stamp the record with the clock
ParseData(agent, data, now) ==
  IF agent = "weather"
    THEN IF data = "well_formed"
           THEN [raised |-> FALSE, error |-> NoError,
                 parsed |-> [name |-> "London", timestamp |-> now]]
         ELSE IF data = "missing_key"
           THEN [raised |-> TRUE, error |-> "KeyError", parsed |-> NoParsed]
         ELSE [raised |-> TRUE, error |-> "TypeError", parsed |-> NoParsed]
    ELSE IF data = "well_formed"
           THEN [raised |-> FALSE, error |-> NoError,
                 parsed |-> [name |-> "Tyrannosaurus", timestamp |-> now]]
         ELSE IF data = "missing_key"
           THEN [raised |-> FALSE, error |-> NoError,
                 parsed |-> [name |-> "Unknown", timestamp |-> now]]
         ELSE [raised |-> TRUE, error |-> "AttributeError",
               parsed |-> NoParsed]

\* _call_ollama_api of the reporter agents: every failure of the request,
\* a status other than 200 and a body that is no JSON are raised as
\* Exception; a 200 returns result.get("response", "")
ReporterCallOllamaApi(outcome) ==
  IF outcome.kind # "status_200" \/ outcome.body = "not_json"
    THEN [raised |-> TRUE, text |-> ""]
  ELSE IF outcome.body = "response"
    THEN [raised |-> FALSE, text |-> " Sunny. "]
  ELSE IF outcome.body = "response_null"
    THEN [raised |-> FALSE, text |-> NoneValue]
  ELSE [raised |-> FALSE, text |-> ""]

\* str.strip() on the summaries the endpoint returns here
Strip(text) == IF text = " Sunny. " THEN "Sunny." ELSE text

ReportTitle(agent) ==
  IF agent = "weather" THEN "WEATHER REPORT" ELSE "DINOSAUR REPORT"

\* the report of the except branch
BasicReport(agent, parsed) ==
  ReportTitle(agent) \o " " \o parsed.name
  \o " Date: " \o ToString(parsed.timestamp)
  \o " Report generated by Fixed Automation Agent"

\* the report of the try branch
EnhancedReport(agent, parsed, ai_summary) ==
  ReportTitle(agent) \o " " \o parsed.name
  \o " Date: " \o ToString(parsed.timestamp)
  \o " AI Summary: " \o Strip(ai_summary)
  \o " Report generated by Fixed Automation Agent (Enhanced with Ollama)"

\* a generate_report without the except branch
GenerateReport_NoFallback(agent, parsed, outcome) ==
  LET r == ReporterCallOllamaApi(outcome) IN
  IF r.raised
    THEN [raised |-> TRUE, error |-> "Exception", report |-> ""]
  ELSE IF r.text = NoneValue
    THEN [raised |-> TRUE, error |-> "AttributeError", report |-> ""]
  ELSE [raised |-> FALSE, error |-> NoError,
        report |-> EnhancedReport(agent, parsed, r.text)]

\* a generate_report that prints a None summary instead of failing on it
GenerateReport_AcceptsNone(agent, parsed, outcome) ==
  LET r == ReporterCallOllamaApi(outcome) IN
  IF r.raised
    THEN [raised |-> FALSE, error |-> NoError,
          report |-> BasicReport(agent, parsed)]
    ELSE [raised |-> FALSE, error |-> NoError,
          report |-> EnhancedReport(agent, parsed, r.text)]

\* generate_report: the try branch calls the endpoint and builds the
\* enhanced report (None has no strip: AttributeError); the except branch
\* catches every Exception and builds the basic report
GenerateReport(agent, parsed, outcome) ==
  LET r == ReporterCallOllamaApi(outcome) IN
  IF r.raised \/ r.text = NoneValue
    THEN [raised |-> FALSE, error |-> NoError,
          report |-> BasicReport(agent, parsed)]
    ELSE [raised |-> FALSE, error |-> NoError,
          report |-> EnhancedReport(agent, parsed, r.text)]

\* no run() call is active
NoRun ==
  [pc |-> "idle", number |-> 0, agent |-> "none", data |-> "none",
   parsed |-> NoParsed, report |-> "", http |-> <<>>,
   summary_call |-> [kind |-> "none", body |-> "none"], error |-> NoError,
   returned |-> "none", filepath |-> Absent, files_before |-> {}]

----------------------------------------------------------------------------
(* 00-LLM-Enhanced/00-Example: config.py and llm_weather_agent.py          *)

\* interactions one agent object records
MaxInteractions == 11

ALLOWED_DOMAINS ==
  {"weather", "temperature", "rain", "sunny", "cloudy", "wind", "humidity",
   "forecast", "climate", "precipitation"}

SAFETY_CONSTRAINTS ==
  {"medical advice", "financial advice", "legal advice",
   "personal information", "inappropriate content", "off-topic queries"}

\* the 10 of _update_conversation_history (lines 312-313)
HistoryLimit == 10

Queries == {"Will it rain in Paris tomorrow?"}

\* intent values of an analysis: a weather intent, the marker unknown, an
\* intent that names no allowed domain, one that names a safety constraint
\* (in capitals), no intent key, and a JSON null
IntentStrings ==
  {"weather_forecast", "unknown", "cooking_pasta",
   "Medical Advice on sunburn"}

QueryAnalysis(intent, conf) ==
  [json |-> "object", intent |-> intent, location |-> "Paris",
   time_frame |-> "tomorrow", weather_type |-> "rain", confidence |-> conf]

\* the weather intent with every confidence, every other intent with a high
\* confidence, and the marker unknown with a confidence that is no number
QueryAnalyses ==
  {QueryAnalysis("weather_forecast", c) :
     c \in {Number(9), Number(3), Number(1), NonNumber("absent"),
            NonNumber("string")}}
  \cup {QueryAnalysis(i, Number(9)) :
          i \in IntentStrings \cup {Absent, NoneValue}}
  \cup {QueryAnalysis("unknown", NonNumber("string"))}

\* outcomes of the analysis request
QueryAnalysisOutcomes ==
  Failures
  \cup {Ok(NotJson), Ok(JsonText(NonObject("list")))}
  \cup {Ok(JsonText(v)) : v \in QueryAnalyses}

\* outcomes of the response request: the response text of a 200, or a failure
GenerationOutcomes ==
  {[kind |-> "status_200", text |-> " Sunny. "],
   [kind |-> "timeout", text |-> ""]}

\* a fallback that passes the boundary check
QueryFallbackAnalysis_Permissive ==
  [json |-> "object", intent |-> "weather_forecast", location |-> NoneValue,
   time_frame |-> "current", weather_type |-> "general",
   confidence |-> Number(5)]

\* the dict of the except branch of _analyze_query_with_llm
QueryFallbackAnalysis ==
  [json |-> "object", intent |-> "unknown", location |-> NoneValue,
   time_frame |-> "current", weather_type |-> "general",
   confidence |-> Number(0)]

\* _analyze_query_with_llm: the call and json.loads in one try (the
\* _call_ollama_api of this class is the code of the planner's); every
\* exception gives the fallback, every JSON value is returned as it is
AnalyzeQueryWithLlm(outcome) ==
  LET t == TryParse(outcome) IN
  IF t.raised THEN QueryFallbackAnalysis ELSE t.val

\* `constraint.lower() in intent.lower()` for some constraint, for every
\* intent string there is
ViolatesConstraint ==
  [intent \in IntentStrings \cup {""} |->
     \E constraint \in SAFETY_CONSTRAINTS :
       Contains(Lower(Chars(constraint)), Lower(Chars(intent)))]

\* _is_query_allowed: a value without .get raises AttributeError; the
\* intent "unknown" is rejected; a confidence below 0.3 (0 when missing) is
\* rejected and one that is no number raises TypeError; an intent that
\* contains a safety constraint is rejected (None has no lower:
\* AttributeError); everything else is allowed
IsQueryAllowed(query_analysis) ==
  IF query_analysis.json # "object"
    THEN [raised |-> TRUE, error |-> "AttributeError", allowed |-> FALSE]
  ELSE IF query_analysis.intent = "unknown"
    THEN [raised |-> FALSE, error |-> NoError, allowed |-> FALSE]
  ELSE IF query_analysis.confidence.kind \notin {"number", "absent"}
    THEN [raised |-> TRUE, error |-> "TypeError", allowed |-> FALSE]
  ELSE IF query_analysis.confidence.kind = "absent"
          \/ query_analysis.confidence.tenths < 3
    THEN [raised |-> FALSE, error |-> NoError, allowed |-> FALSE]
  ELSE IF query_analysis.intent = NoneValue
    THEN [raised |-> TRUE, error |-> "AttributeError", allowed |-> FALSE]
  ELSE [raised |-> FALSE, error |-> NoError,
        allowed |-> ~ViolatesConstraint[
                      Get(query_analysis, "intent", "")]]

\* `x or default`: None and a missing key give the default
OrDefault(x, default) == IF x \in {Absent, NoneValue} THEN default ELSE x

ExtractWeatherNeeds(query_analysis) ==
  [location |-> OrDefault(query_analysis.location, DEFAULT_CITY),
   time_frame |-> Get(query_analysis, "time_frame", "current"),
   weather_type |-> Get(query_analysis, "weather_type", "general"),
   intent |-> Get(query_analysis, "intent", "general_weather")]

\* _generate_contextual_response: the stripped response text, or the
\* apology of the except branch
GenerateContextualResponse(outcome) ==
  IF outcome.kind = "status_200"
    THEN Strip(outcome.text)
    ELSE "I'm sorry, I couldn't generate a response. Please try again."

\* the responses _apply_safety_filters is given
Responses ==
  {"Sunny.", "I'm sorry, I couldn't generate a response. Please try again."}

\* `constraint.lower() in response.lower()` for some constraint
ResponseViolates ==
  [response \in Responses |->
     \E constraint \in SAFETY_CONSTRAINTS :
       Contains(Lower(Chars(constraint)), Lower(Chars(response)))]

ResponseLength == [response \in Responses |-> Len(Chars(response))]

\* _apply_safety_filters: the fixed text for a response that names a
\* constraint, the first 500 characters and "..." for a long one
ApplySafetyFilters(response) ==
  IF ResponseViolates[response]
    THEN "I can only provide weather-related information. "
         \o "Please ask about weather conditions."
  ELSE IF ResponseLength[response] > 500
    THEN "<first 500 characters of: " \o response \o ">..."
  ELSE response

GenerateBoundaryErrorResponse(user_query) ==
  "I can only help with weather-related questions. Your query '"
  \o user_query \o "' seems to be outside my area of expertise. Please ask "
  \o "about weather conditions, temperatures, or weather forecasts."

\* a history that keeps its first ten entries
UpdateConversationHistory_KeepsFirst(history, user_query, response, now) ==
  LET h == Append(history, [timestamp |-> now, user_query |-> user_query,
                            agent_response |-> response])
  IN  IF Len(h) > HistoryLimit THEN SubSeq(h, 1, HistoryLimit) ELSE h

\* _update_conversation_history: append, then keep the last 10
UpdateConversationHistory(history, user_query, response, now) ==
  LET h == Append(history, [timestamp |-> now, user_query |-> user_query,
                            agent_response |-> response])
  IN  IF Len(h) > HistoryLimit
        THEN SubSeq(h, Len(h) - HistoryLimit + 1, Len(h))
        ELSE h

NoQueryAnalysis == [json |-> "none"]

NoWeatherNeeds ==
  [location |-> Absent, time_frame |-> Absent, weather_type |-> Absent,
   intent |-> Absent]

\* the agent object after __init__, no call running; clock counts the
\* datetime.now() readings, recorded is the log of the interactions
\* recorded since the history was last cleared
NoChat ==
  [pc |-> "idle", user_query |-> Absent, query_analysis |-> NoQueryAnalysis,
   analysis_call |-> "none", allowed |-> "none",
   weather_needs |-> NoWeatherNeeds, calls |-> 0, response |-> Absent,
   error |-> NoError, clock |-> 0, conversation_history |-> <<>>,
   history_before |-> <<>>, recorded |-> <<>>]

----------------------------------------------------------------------------
(* State machine of the planner: plan_weather_activity, called by main     *)
(* for one task after the other on the same agent object                   *)

NoAnalysis == [json |-> "none"]

NoReasoning == [json |-> "none"]

\* a WeatherPlanningAgent object after __init__, between two calls of
\* plan_weather_activity; clock is the reading datetime.now() gives next
NewAgent ==
  [pc |-> "idle", task_analysis |-> NoAnalysis, plan |-> NoPlan,
   heap |-> <<>>, planning_iteration |-> 0, planning_history |-> <<>>,
   current_plan |-> NoPlan, error |-> NoError, clock |-> 0]

\* agent a is constructed anew for every task and agent b goes on from
\* task to task, started one clock reading later
NoTwin == [round |-> 0, a |-> NewAgent, b |-> [NewAgent EXCEPT !.clock = 1]]

Init ==
  /\ pc = "idle"
  /\ session = 0
  /\ task_description = Absent
  /\ task_analysis = NoAnalysis
  /\ plan = NoPlan
  /\ reasoning = NoReasoning
  /\ planning_iteration = 0
  /\ planning_history = <<>>
  /\ current_plan = NoPlan
  /\ heap = <<>>
  /\ templates = PLANNING_TEMPLATES
  /\ calls = 0
  /\ analysis_call = "none"
  /\ reasoning_call = "none"
  /\ cycles = 0
  /\ exit = "none"
  /\ last_action = NoResult
  /\ error = NoError
  /\ clock = 0
  /\ files = {}
  /\ saved = <<>>
  /\ run = NoRun
  /\ chat = NoChat
  /\ twin = NoTwin

\* main calls plan_weather_activity(task)
Start(task) ==
  /\ pc = "idle"
  /\ session < MaxSessions
  /\ session' = session + 1
  /\ task_description' = task
  /\ pc' = "analyze"
  /\ UNCHANGED <<twin, chat, run, templates, task_analysis, plan, reasoning, planning_iteration,
                 planning_history, current_plan, heap, calls, analysis_call,
                 reasoning_call, cycles, exit, last_action, error, clock,
                 files, saved>>

\* task_analysis = self._analyze_task(task_description): one endpoint call
AnalyzeTask(outcome) ==
  /\ pc = "analyze"
  /\ calls' = calls + PostRequests(outcome)
  /\ analysis_call' = OutcomeClass(outcome)
  /\ LET a == AnalyzeTaskResult(task_description, outcome)
     IN  IF a.raised
           THEN /\ pc' = "raised"
                /\ error' = a.error
                /\ UNCHANGED task_analysis
           ELSE /\ pc' = "create"
                /\ task_analysis' = a.val
                /\ UNCHANGED error
  /\ UNCHANGED <<twin, chat, run, templates, session, task_description, plan, reasoning,
                 planning_iteration, planning_history, current_plan, heap,
                 reasoning_call, cycles, exit, last_action, clock, files,
                 saved>>

\* initial_plan = self._create_initial_plan(task_analysis), then the entry
\* of _execute_planning_iterations: self.planning_iteration = 0.
\* Nothing reads task_description after _analyze_task: it leaves the state.
CreatePlan ==
  /\ pc = "create"
  /\ IF CreateInitialPlanError(task_analysis) # NoError
       THEN /\ pc' = "raised"
            /\ error' = CreateInitialPlanError(task_analysis)
            /\ UNCHANGED <<plan, heap, planning_iteration, clock>>
       ELSE /\ heap' = Append(heap, <<>>)
            /\ plan' = CreateInitialPlan(task_analysis, Len(heap) + 1, clock)
            /\ clock' = clock + 1
            /\ planning_iteration' = 0
            /\ pc' = "loop"
            /\ UNCHANGED error
  /\ task_description' = Absent
  /\ UNCHANGED <<twin, chat, run, templates, session, task_analysis, reasoning,
                 planning_history, current_plan, calls, analysis_call,
                 reasoning_call, cycles, exit, last_action, files, saved>>

\* one pass of the while loop (lines 180-200): reason, determine, execute,
\* update, completion check, increment
Iteration(outcome) ==
  /\ pc = "loop"
  /\ planning_iteration < MAX_PLANNING_ITERATIONS
  /\ calls' = calls + PostRequests(outcome)
  /\ cycles' = cycles + 1
  /\ reasoning_call' = OutcomeClass(outcome)
  /\ LET r == ReasonAboutCurrentState(outcome)
         next_action == DetermineNextAction(plan)
         x == ExecuteAction(next_action, plan, task_analysis, heap, clock)
         u == UpdatePlanBasedOnResult(x.plan, x.result, planning_iteration,
                                      clock + 1)
     IN  IF r.raised
           THEN /\ pc' = "raised"
                /\ exit' = "exception"
                /\ error' = r.error
                /\ UNCHANGED <<reasoning, plan, heap, clock, last_action,
                               planning_history, planning_iteration>>
         ELSE IF x.raised \/ u.raised
           THEN /\ pc' = "raised"
                /\ exit' = "exception"
                /\ error' = IF x.raised THEN x.error ELSE u.error
                /\ reasoning' = r.val
                /\ plan' = IF x.raised THEN x.plan ELSE u.plan
                /\ heap' = x.heap
                /\ clock' = IF x.raised THEN clock ELSE clock + 1
                /\ last_action' = x.result
                /\ UNCHANGED <<planning_history, planning_iteration>>
           ELSE /\ reasoning' = r.val
                /\ plan' = u.plan
                /\ heap' = x.heap
                /\ planning_history' = planning_history \o u.entries
                /\ clock' = clock + 2
                /\ last_action' = x.result
                /\ UNCHANGED error
                /\ IF IsPlanningComplete(u.plan)
                     THEN /\ pc' = "finalize"
                          /\ exit' = "break"
                          /\ UNCHANGED planning_iteration
                     ELSE /\ pc' = "loop"
                          /\ planning_iteration' = planning_iteration + 1
                          /\ UNCHANGED exit
  /\ UNCHANGED <<twin, chat, run, templates, session, task_description, task_analysis, current_plan,
                 analysis_call, files, saved>>

\* the while condition fails: the loop is left with the plan as it is
LoopExit ==
  /\ pc = "loop"
  /\ ~(planning_iteration < MAX_PLANNING_ITERATIONS)
  /\ pc' = "finalize"
  /\ exit' = "cap"
  /\ UNCHANGED <<twin, chat, run, templates, session, task_description, task_analysis, plan, reasoning,
                 planning_iteration, planning_history, current_plan, heap,
                 calls, analysis_call, reasoning_call, cycles, last_action,
                 error, clock, files, saved>>

\* finalized_plan = self._finalize_plan(final_plan); return finalized_plan
Finalize ==
  /\ pc = "finalize"
  /\ plan' = FinalizePlan(plan, heap, clock)
  /\ current_plan' = plan'
  /\ clock' = clock + 1
  /\ pc' = "returned"
  /\ UNCHANGED <<twin, chat, run, templates, session, task_description, task_analysis, reasoning,
                 planning_iteration, planning_history, heap, calls,
                 analysis_call, reasoning_call, cycles, exit, last_action,
                 error, files, saved>>

\* back in main: the result is printed, or the exception is caught and
\* printed, and the locals of the call are gone
Return ==
  /\ pc \in {"returned", "raised"}
  /\ pc' = "idle"
  /\ task_description' = Absent
  /\ task_analysis' = NoAnalysis
  /\ plan' = NoPlan
  /\ reasoning' = NoReasoning
  /\ calls' = 0
  /\ analysis_call' = "none"
  /\ reasoning_call' = "none"
  /\ cycles' = 0
  /\ exit' = "none"
  /\ last_action' = NoResult
  /\ error' = NoError
  /\ UNCHANGED <<twin, chat, run, templates, session, planning_iteration, planning_history,
                 current_plan, heap, clock, files, saved>>

Next ==
  \/ \E task \in Tasks : Start(task)
  \/ \E outcome \in AnalysisOutcomes : AnalyzeTask(outcome)
  \/ CreatePlan
  \/ \E outcome \in ReasoningOutcomes : Iteration(outcome)
  \/ LoopExit
  \/ Finalize
  \/ Return

Spec == Init /\ [][Next]_vars

----------------------------------------------------------------------------
(* State machine of the report files: save_report calls of one process     *)
(* run, with the wall clock advancing between them                         *)

\* time passes
Tick ==
  /\ clock < MaxClock
  /\ clock' = clock + 1
  /\ UNCHANGED <<twin, chat, reactVars, files, saved, run>>

\* filepath = agent.save_report(report)
SaveReport(agent, report) ==
  /\ Len(saved) < MaxSaves
  /\ files' = WriteFile(files, Filepath(agent, clock), report)
  /\ saved' = Append(saved, [agent |-> agent, report |-> report,
                             at |-> clock,
                             filepath |-> Filepath(agent, clock)])
  /\ UNCHANGED <<twin, chat, reactVars, clock, run>>

NextReport ==
  \/ Tick
  \/ \E agent \in Agents, report \in Reports : SaveReport(agent, report)

SpecReport == Init /\ [][NextReport]_vars

----------------------------------------------------------------------------
(* State machine of run(): fetch, parse, generate, save, each step entered *)
(* only when the one before returned; time passes between the steps        *)

\* agent.run() is called
RunStart(agent) ==
  /\ run.pc = "idle"
  /\ run.number < MaxRuns
  /\ run' = [NoRun EXCEPT !.pc = "fetch", !.number = run.number + 1,
                          !.agent = agent, !.files_before = files]
  /\ UNCHANGED <<twin, chat, reactVars, clock, files, saved>>

\* an except branch that goes on to the save step
RunFailed_GoesOnToSave(r, e) ==
  [r EXCEPT !.pc = "save", !.error = e]

\* the except branch of run: print the error, return False
RunFailed(r, e) ==
  [r EXCEPT !.pc = "done", !.error = e, !.returned = "False"]

\* Step 1: data = self.fetch_...()
RunFetch(outcome) ==
  /\ run.pc = "fetch"
  /\ LET f == FetchData(run.agent, outcome)
         r == [run EXCEPT !.http =
                 Append(@, [api |-> "data", kind |-> outcome.kind])]
     IN  run' = IF f.raised
                  THEN RunFailed(r, f.error)
                  ELSE [r EXCEPT !.pc = "parse", !.data = f.data]
  /\ UNCHANGED <<twin, chat, reactVars, clock, files, saved>>

\* Step 2: parsed_data = self.parse_...(data)
RunParse ==
  /\ run.pc = "parse"
  /\ LET p == ParseData(run.agent, run.data, clock)
     IN  run' = IF p.raised
                  THEN RunFailed(run, p.error)
                  ELSE [run EXCEPT !.pc = "generate", !.parsed = p.parsed]
  /\ UNCHANGED <<twin, chat, reactVars, clock, files, saved>>

\* Step 3: report = self.generate_report(parsed_data)
RunGenerate(outcome) ==
  /\ run.pc = "generate"
  /\ LET g == GenerateReport(run.agent, run.parsed, outcome)
         r == [run EXCEPT !.http =
                 Append(@, [api |-> "ollama", kind |-> outcome.kind]),
                          !.summary_call = outcome]
     IN  run' = IF g.raised
                  THEN RunFailed(r, g.error)
                  ELSE [r EXCEPT !.pc = "save", !.report = g.report]
  /\ UNCHANGED <<twin, chat, reactVars, clock, files, saved>>

\* Step 4: filepath = self.save_report(report); return True
RunSave ==
  /\ run.pc = "save"
  /\ files' = WriteFile(files, Filepath(run.agent, clock), run.report)
  /\ run' = [run EXCEPT !.pc = "done", !.returned = "True",
                        !.filepath = Filepath(run.agent, clock)]
  /\ UNCHANGED <<twin, chat, reactVars, clock, saved>>

\* back in the caller: the locals of run() are gone
RunReturn ==
  /\ run.pc = "done"
  /\ run' = [NoRun EXCEPT !.number = run.number]
  /\ UNCHANGED <<twin, chat, reactVars, clock, files, saved>>

NextRun ==
  \/ Tick
  \/ \E agent \in Agents : RunStart(agent)
  \/ \E outcome \in FetchOutcomes : RunFetch(outcome)
  \/ RunParse
  \/ \E outcome \in SummaryOutcomes : RunGenerate(outcome)
  \/ RunSave
  \/ RunReturn

SpecRun == Init /\ [][NextRun]_vars

----------------------------------------------------------------------------
(* State machine of LLMWeatherAgent: process_natural_language_query and    *)
(* clear_conversation_history calls on one agent object                    *)

\* agent.process_natural_language_query(user_query)
ChatQuery(user_query) ==
  /\ chat.pc = "idle"
  /\ chat.clock < MaxInteractions
  /\ chat' = [chat EXCEPT !.pc = "analyze", !.user_query = user_query,
                          !.history_before = chat.conversation_history]
  /\ UNCHANGED <<twin, reactVars, clock, files, saved, run>>

\* Steps 1 and 2: the analysis request and the boundary check
ChatAnalyze(outcome) ==
  /\ chat.pc = "analyze"
  /\ LET query_analysis == AnalyzeQueryWithLlm(outcome)
         a == IsQueryAllowed(query_analysis)
         c == [chat EXCEPT !.calls = @ + 1,
                           !.analysis_call = OutcomeClass(outcome),
                           !.query_analysis = query_analysis]
     IN  chat' =
           IF a.raised
             THEN [c EXCEPT !.pc = "raised", !.error = a.error]
           ELSE IF ~a.allowed
             THEN [c EXCEPT !.pc = "done", !.allowed = "False",
                     !.response =
                        GenerateBoundaryErrorResponse(chat.user_query)]
           ELSE [c EXCEPT !.pc = "generate", !.allowed = "True",
                   !.weather_needs = ExtractWeatherNeeds(query_analysis)]
  /\ UNCHANGED <<twin, reactVars, clock, files, saved, run>>

\* Steps 3 to 6: the response request, the safety filter, the history
ChatGenerate(outcome) ==
  /\ chat.pc = "generate"
  /\ LET response == GenerateContextualResponse(outcome)
         filtered_response == ApplySafetyFilters(response)
     IN  chat' =
           [chat EXCEPT
              !.pc = "done",
              !.calls = @ + 1,
              !.response = filtered_response,
              !.conversation_history =
                 UpdateConversationHistory(@, chat.user_query,
                                           filtered_response, chat.clock),
              !.recorded =
                 Append(@, [timestamp |-> chat.clock,
                            user_query |-> chat.user_query,
                            agent_response |-> filtered_response]),
              !.clock = @ + 1]
  /\ UNCHANGED <<twin, reactVars, clock, files, saved, run>>

\* the call has returned its response, or its exception has been printed by
\* run_interactive_session
ChatReturn ==
  /\ chat.pc \in {"done", "raised"}
  /\ chat' = [NoChat EXCEPT
                !.clock = chat.clock,
                !.conversation_history = chat.conversation_history,
                !.recorded = chat.recorded]
  /\ UNCHANGED <<twin, reactVars, clock, files, saved, run>>

\* agent.clear_conversation_history()
ChatClear ==
  /\ chat.pc = "idle"
  /\ chat' = [chat EXCEPT !.conversation_history = <<>>,
                          !.recorded = <<>>]
  /\ UNCHANGED <<twin, reactVars, clock, files, saved, run>>

NextChat ==
  \/ \E user_query \in Queries : ChatQuery(user_query)
  \/ \E outcome \in QueryAnalysisOutcomes : ChatAnalyze(outcome)
  \/ \E outcome \in GenerationOutcomes : ChatGenerate(outcome)
  \/ ChatReturn
  \/ ChatClear

SpecChat == Init /\ [][NextChat]_vars

----------------------------------------------------------------------------
(* plan_weather_activity as a function of the agent object and of the      *)
(* endpoint's outcomes, and two agents that receive the same outcomes      *)

\* plan_weather_activity(task) up to the return of _analyze_task
SessionAnalyze(s, task, outcome) ==
  LET a == AnalyzeTaskResult(task, outcome)
  IN  IF a.raised
        THEN [s EXCEPT !.pc = "raised", !.error = a.error]
        ELSE [s EXCEPT !.pc = "create", !.task_analysis = a.val]

\* _create_initial_plan and the entry of _execute_planning_iterations
SessionCreate(s) ==
  IF CreateInitialPlanError(s.task_analysis) # NoError
    THEN [s EXCEPT !.pc = "raised",
                   !.error = CreateInitialPlanError(s.task_analysis)]
    ELSE [s EXCEPT !.pc = "loop",
                   !.heap = Append(@, <<>>),
                   !.plan = CreateInitialPlan(s.task_analysis,
                                              Len(s.heap) + 1, s.clock),
                   !.clock = @ + 1,
                   !.planning_iteration = 0]

\* one pass of the while loop (lines 180-200)
SessionIteration(s, outcome) ==
  LET r == ReasonAboutCurrentState(outcome)
      next_action == DetermineNextAction(s.plan)
      x == ExecuteAction(next_action, s.plan, s.task_analysis, s.heap,
                         s.clock)
      u == UpdatePlanBasedOnResult(x.plan, x.result, s.planning_iteration,
                                   s.clock + 1)
  IN  IF r.raised
        THEN [s EXCEPT !.pc = "raised", !.error = r.error]
      ELSE IF x.raised
        THEN [s EXCEPT !.pc = "raised", !.error = x.error,
                       !.plan = x.plan, !.heap = x.heap]
      ELSE IF u.raised
        THEN [s EXCEPT !.pc = "raised", !.error = u.error,
                       !.plan = u.plan, !.heap = x.heap, !.clock = @ + 1]
      ELSE LET s1 == [s EXCEPT !.plan = u.plan, !.heap = x.heap,
                               !.planning_history = @ \o u.entries,
                               !.clock = @ + 2]
           IN  IF IsPlanningComplete(u.plan)
                 THEN [s1 EXCEPT !.pc = "finalize"]
                 ELSE [s1 EXCEPT !.pc = "loop",
                                 !.planning_iteration = @ + 1]

\* _finalize_plan
SessionFinalize(s) ==
  LET p == FinalizePlan(s.plan, s.heap, s.clock)
  IN  [s EXCEPT !.pc = "returned", !.plan = p, !.current_plan = p,
                !.clock = @ + 1]

\* back in main: the locals of the call are gone, the object stays
SessionReturn(s) ==
  [s EXCEPT !.pc = "idle", !.task_analysis = NoAnalysis, !.plan = NoPlan,
            !.error = NoError]

\* both agents are given the task, and their analysis requests are
\* answered alike
TwinAnalyze(task, outcome) ==
  /\ twin.a.pc = "idle" /\ twin.b.pc = "idle"
  /\ twin.round < MaxSessions
  /\ twin' = [round |-> twin.round + 1,
              a |-> SessionAnalyze(twin.a, task, outcome),
              b |-> SessionAnalyze(twin.b, task, outcome)]
  /\ UNCHANGED <<chat, reactVars, clock, files, saved, run>>

TwinCreate ==
  /\ twin.a.pc = "create" /\ twin.b.pc = "create"
  /\ twin' = [twin EXCEPT !.a = SessionCreate(@), !.b = SessionCreate(@)]
  /\ UNCHANGED <<chat, reactVars, clock, files, saved, run>>

\* the reasoning requests of both are answered alike
TwinIteration(outcome) ==
  /\ twin.a.pc = "loop" /\ twin.b.pc = "loop"
  /\ twin.a.planning_iteration < MAX_PLANNING_ITERATIONS
  /\ twin.b.planning_iteration < MAX_PLANNING_ITERATIONS
  /\ twin' = [twin EXCEPT !.a = SessionIteration(@, outcome),
                          !.b = SessionIteration(@, outcome)]
  /\ UNCHANGED <<chat, reactVars, clock, files, saved, run>>

TwinLoopExit ==
  /\ twin.a.pc = "loop" /\ twin.b.pc = "loop"
  /\ ~(twin.a.planning_iteration < MAX_PLANNING_ITERATIONS)
  /\ ~(twin.b.planning_iteration < MAX_PLANNING_ITERATIONS)
  /\ twin' = [twin EXCEPT !.a.pc = "finalize", !.b.pc = "finalize"]
  /\ UNCHANGED <<chat, reactVars, clock, files, saved, run>>

TwinFinalize ==
  /\ twin.a.pc = "finalize" /\ twin.b.pc = "finalize"
  /\ twin' = [twin EXCEPT !.a = SessionFinalize(@),
                          !.b = SessionFinalize(@)]
  /\ UNCHANGED <<chat, reactVars, clock, files, saved, run>>

\* both calls are over; the next task finds a new agent a and the same b
TwinReturn ==
  /\ twin.a.pc \in {"returned", "raised"}
  /\ twin.b.pc \in {"returned", "raised"}
  /\ twin' = [twin EXCEPT !.a = NewAgent, !.b = SessionReturn(@)]
  /\ UNCHANGED <<chat, reactVars, clock, files, saved, run>>

NextTwin ==
  \/ \E task \in Tasks, outcome \in AnalysisOutcomes :
       TwinAnalyze(task, outcome)
  \/ TwinCreate
  \/ \E outcome \in ReasoningOutcomes : TwinIteration(outcome)
  \/ TwinLoopExit
  \/ TwinFinalize
  \/ TwinReturn

SpecTwin == Init /\ [][NextTwin]_vars

----------------------------------------------------------------------------
(* Properties of the planning loop                                         *)

\* the plan dict of the running call exists
HasPlan == plan # NoPlan

CompletedSteps(p) == heap[p.completed_steps]

\* the completion condition, as the specification words it
CompletionCondition(p) ==
  /\ p.current_step >= Len(p.steps)
  /\ p.confidence.tenths >= 7
  /\ p.weather_conditions # {}
  /\ p.activities # <<>>
  /\ p.contingency_plans # <<>>

\* the loop has been left, or its while condition is about to fail
Stopped ==
  \/ pc \in {"finalize", "returned"}
  \/ pc = "loop" /\ planning_iteration >= 5

\* C1: whatever the endpoint returns or raises, one call of
\* plan_weather_activity runs at most MAX_PLANNING_ITERATIONS (5)
\* reason/determine/execute/update cycles.
C1_AtMostMaxCycles == cycles <= 5

\* a call that ran all five cycles and returned
C1_Witness == pc = "returned" /\ cycles = 5 /\ exit = "cap"

\* C2: after every iteration of the loop the confidence lies in [0.0, 1.0]
\* (0..10 tenths), for every initial confidence the task analysis supplies.
C2_ConfidenceInUnitInterval ==
  (pc \in {"loop", "finalize", "returned"} /\ cycles >= 1)
    => (plan.confidence.tenths >= 0 /\ plan.confidence.tenths <= 10)

\* C3: after an iteration the loop stops exactly when the completion
\* condition holds or 5 iterations have run; there is no other way out.
C3_StopsExactlyOnCompletionOrCap ==
  cycles >= 1 =>
    /\ pc \in {"loop", "finalize", "returned"}
    /\ Stopped <=> (CompletionCondition(plan) \/ cycles = 5)

\* C4: for every template, if every executed step handler reported success
\* and the confidence reached the threshold, the loop is left through the
\* completion check and the plan is returned with status completed.
C4_SuccessLeavesThroughCompletionCheck ==
  ( /\ pc = "returned"
    /\ \A i \in 1..Len(CompletedSteps(plan)) :
         CompletedSteps(plan)[i].result.success
    /\ plan.confidence.tenths >= 7 )
    => (exit = "break" /\ plan.status = "completed")

\* C5: when the analysis call raises or returns text that is not JSON,
\* _analyze_task returns the fixed default record, whatever the task
\* description, and makes no second call.
C5_AnalysisFallsBackToDefault ==
  analysis_call \in {"raised", "not_json"} =>
    /\ pc # "raised"
    /\ pc = "create" => calls = 1
    /\ task_analysis =
         [json |-> "object", task_type |-> "general_weather_planning",
          weather_requirements |-> "moderate_conditions",
          time_horizon |-> 3, location |-> "London", constraints |-> "none",
          success_criteria |-> "successful_activity_completion",
          confidence |-> Number(5)]

\* _analyze_task has just returned the default for unparseable text
C5_Witness ==
  /\ pc = "create"
  /\ analysis_call = "not_json"
  /\ task_description =
       "Create a travel itinerary considering weather forecasts"
  /\ task_analysis.task_type = "general_weather_planning"

\* the body of one call is running
Running == pc \in {"analyze", "create", "loop", "finalize"}

SessionStep ==
  \/ \E outcome \in AnalysisOutcomes : AnalyzeTask(outcome)
  \/ CreatePlan
  \/ \E outcome \in ReasoningOutcomes : Iteration(outcome)
  \/ LoopExit
  \/ Finalize

\* C6: an exception of a generation-endpoint call in _analyze_task or in
\* _reason_about_current_state is caught and replaced by the fixed default;
\* it never leaves plan_weather_activity, and a call whose analysis request
\* failed goes on, step by step, to return a plan.
C6_EndpointFailuresAreAbsorbed ==
  /\ error # "Exception"
  /\ analysis_call = "raised" =>
       /\ task_analysis.task_type = "general_weather_planning"
       /\ task_analysis.confidence = Number(5)
       /\ pc # "raised"
       /\ Running => ENABLED SessionStep
       /\ pc = "returned" => (HasPlan /\ current_plan = plan)
  /\ (reasoning_call = "raised" /\ pc # "raised") =>
       /\ reasoning.current_status = "planning_in_progress"
       /\ reasoning.next_priorities = <<"continue_planning">>
       /\ reasoning.confidence = Number(5)

\* every request of a call failed and the call returned a plan
C6_Witness ==
  /\ pc = "returned"
  /\ analysis_call = "raised"
  /\ reasoning_call = "raised"
  /\ plan.status = "completed"

\* C7: the plan returned for a 5-step template has exactly 5 entries in
\* completed_steps, one per template step, in template order.
C7_FiveStepsInTemplateOrder ==
  (pc = "returned" /\ Len(plan.steps) = 5) =>
    /\ Len(CompletedSteps(plan)) = 5
    /\ \A i \in 1..5 :
         /\ CompletedSteps(plan)[i].step = plan.steps[i]
         /\ CompletedSteps(plan)[i].step_index = i - 1

\* a returned plan of the travel template
C7_Witness ==
  /\ pc = "returned"
  /\ plan.task_type = "travel_planning"
  /\ Len(CompletedSteps(plan)) = 5

\* C9 (as stated): the status follows planning -> completed | failed: it is
\* one of these three, failed exactly when the most recent action was
\* unsuccessful, and completed only after the explicit finalization.
C9_StatusIsPlanningCompletedOrFailed ==
  HasPlan =>
    /\ plan.status \in {"planning", "completed", "failed"}
    /\ plan.status = "failed" <=> (cycles >= 1 /\ ~last_action.success)
    /\ plan.status = "completed" => pc = "returned"

\* C9 (amended): the status is planning until the first iteration; after an
\* iteration it is planning_in_progress when the action succeeded and
\* planning_failed when it did not; it is completed exactly from
\* _finalize_plan on, and the plan stored as current_plan stays completed.
C9_StatusStateMachine ==
  /\ HasPlan =>
       /\ plan.status \in {"planning", "planning_in_progress",
                           "planning_failed", "completed"}
       /\ plan.status = "planning" <=> cycles = 0
       /\ plan.status = "planning_in_progress" <=>
            (cycles >= 1 /\ last_action.success /\ pc # "returned")
       /\ plan.status = "planning_failed" <=>
            (cycles >= 1 /\ ~last_action.success /\ pc # "returned")
       /\ plan.status = "completed" <=> pc = "returned"
  /\ current_plan # NoPlan => current_plan.status = "completed"

\* the loop goes on after a successful action
C9_Witness ==
  /\ pc = "loop"
  /\ cycles >= 1
  /\ last_action.success
  /\ plan.status = "planning_in_progress"

\* C10: _create_initial_plan returns a plan with status planning,
\* current_step 0, empty completed_steps, weather_conditions, activities and
\* contingency_plans, and the steps of the template of the analysis'
\* task_type, or of outdoor_activity when the task_type is missing or no key
\* of PLANNING_TEMPLATES.
C10_InitialPlan ==
  (pc = "loop" /\ cycles = 0) =>
    /\ plan.status = "planning"
    /\ plan.current_step = 0
    /\ CompletedSteps(plan) = <<>>
    /\ plan.weather_conditions = {}
    /\ plan.activities = <<>>
    /\ plan.contingency_plans = <<>>
    /\ plan.steps =
         IF task_analysis.task_type \in
              {"outdoor_activity", "travel_planning", "daily_schedule"}
           THEN PLANNING_TEMPLATES[task_analysis.task_type].steps
           ELSE PLANNING_TEMPLATES["outdoor_activity"].steps

\* a plan just built for a task_type that is no key of the templates
C10_Witness ==
  /\ pc = "loop"
  /\ cycles = 0
  /\ task_analysis.task_type = "wedding_planning"
  /\ plan.steps[1] = "Analyze weather conditions"

----------------------------------------------------------------------------
(* Properties of the report files                                          *)

\* the clock second of a clock reading
SecondOf(now) == now \div TicksPerSecond

\* C8 (as stated): any two save_report calls of one agent in the same
\* process run return distinct filenames, so the second report never
\* overwrites the first.
C8_FilenamesAlwaysDistinct ==
  \A i, j \in 1..Len(saved) :
    (i < j /\ saved[i].agent = saved[j].agent) =>
      /\ saved[i].filepath # saved[j].filepath
      /\ <<saved[i].filepath, saved[i].report>> \in files

\* C8 (amended): the filenames of two save_report calls of one agent differ
\* only in the timestamp, which is cut to the second: they are distinct
\* exactly when the calls fall into different clock seconds, and a second
\* call in the same second replaces the file of the first.
C8_FilenamesDistinctAcrossSeconds ==
  /\ \A i \in 1..Len(saved) :
       saved[i].filepath =
         OUTPUT_DIR \o "/" \o saved[i].agent \o "_report_"
           \o ToString(SecondOf(saved[i].at)) \o ".txt"
  /\ \A i, j \in 1..Len(saved) :
       (i < j /\ saved[i].agent = saved[j].agent) =>
         (saved[i].filepath = saved[j].filepath
            <=> SecondOf(saved[i].at) = SecondOf(saved[j].at))
  /\ files =
       {<<saved[i].filepath, saved[i].report>> : i \in
          {k \in 1..Len(saved) :
             \A j \in 1..Len(saved) :
               saved[j].filepath = saved[k].filepath => j <= k}}

\* two reports saved at different ticks of one second: one file, holding
\* the second report
C8_Witness ==
  /\ Len(saved) = 2
  /\ saved[1].agent = saved[2].agent
  /\ saved[1].at < saved[2].at
  /\ saved[1].filepath = saved[2].filepath
  /\ saved[1].report # saved[2].report
  /\ Cardinality(files) = 1

----------------------------------------------------------------------------
(* Properties of the plan's steps, its history and the endpoint calls      *)

\* C11: the plan's steps list is a copy of the template's steps and no
\* iteration and no finalization changes it; PLANNING_TEMPLATES is never
\* modified, so a later session on the same agent gets the same template.
C11_StepsAndTemplatesNeverChange ==
  /\ [](templates = PLANNING_TEMPLATES)
  /\ [](HasPlan => plan.steps = PLANNING_TEMPLATES[
                     IF plan.task_type \in DOMAIN PLANNING_TEMPLATES
                       THEN plan.task_type ELSE "outdoor_activity"].steps)
  /\ [][(HasPlan /\ HasPlan') => plan'.steps = plan.steps]_vars

\* a second session on the same agent has iterated and finalized its plan
C11_Witness ==
  /\ session = 2
  /\ pc = "returned"
  /\ cycles = 5
  /\ plan.steps = PLANNING_TEMPLATES["outdoor_activity"].steps

\* the step is a loop body that executes a template step
ExecutesTemplateStep ==
  /\ pc = "loop"
  /\ cycles' = cycles + 1
  /\ plan.current_step < Len(plan.steps)

\* C12: current_step starts at 0, never decreases, grows by exactly 1 in
\* each iteration that executes a template step, and never exceeds the
\* number of steps.
C12_CurrentStepCountsExecutedSteps ==
  /\ [](HasPlan => plan.current_step \in 0..Len(plan.steps))
  /\ []((pc = "loop" /\ cycles = 0) => plan.current_step = 0)
  /\ [][(HasPlan /\ HasPlan') =>
          /\ plan'.current_step >= plan.current_step
          /\ plan'.current_step =
               plan.current_step + (IF ExecutesTemplateStep THEN 1 ELSE 0)
       ]_vars

\* every template step was executed and the index stands at the end
C12_Witness ==
  /\ pc = "returned"
  /\ cycles = 5
  /\ plan.current_step = Len(plan.steps)

\* what a history entry shows of the plan when it is read: the dict of the
\* snapshot, with its completed_steps list looked up
EntryPlanState(e) ==
  [completed_steps |-> heap[e.plan_state.completed_steps],
   current_step |-> e.plan_state.current_step,
   confidence |-> e.plan_state.confidence,
   status |-> e.plan_state.status]

\* C13: the plan_state of a history entry is a snapshot: no later iteration
\* and no finalization changes a field of an earlier entry, which keeps the
\* completed_steps, current_step, confidence and status of its iteration.
C13_EarlierEntriesKeepTheirPlanState ==
  [][\A i \in 1..Len(planning_history) :
       i <= Len(planning_history') =>
         EntryPlanState(planning_history[i])' =
           EntryPlanState(planning_history[i])
    ]_vars

\* the step is a loop body: reason, determine, execute, update
LoopIteration == pc = "loop" /\ cycles' = cycles + 1

\* C14: planning_history is append-only: each loop iteration appends exactly
\* one entry, which carries that iteration's number and its action result;
\* nothing removes or reorders entries.
C14_EachIterationAppendsOneEntry ==
  [][IF LoopIteration
       THEN /\ Len(planning_history') = Len(planning_history) + 1
            /\ SubSeq(planning_history', 1, Len(planning_history)) =
                 planning_history
            /\ LET e == planning_history'[Len(planning_history')]
               IN  /\ e.iteration = planning_iteration
                   /\ e.action_result = last_action'
       ELSE planning_history' = planning_history
    ]_vars

\* C15: each planning session owns its own History list: while a session
\* runs and when it has returned, planning_history holds only entries of
\* that session's plan, also when the agent planned other tasks before.
C15_HistoryHoldsOnlyThisSessionsEntries ==
  HasPlan =>
    /\ Len(planning_history) <= cycles
    /\ \A i \in 1..Len(planning_history) :
         /\ planning_history[i].plan_state.created_at = plan.created_at
         /\ planning_history[i].plan_state.completed_steps =
              plan.completed_steps

----------------------------------------------------------------------------
(* Properties of run() of the Fixed-Automation agents                      *)

\* a request of the run to this API did not answer with status 200
HttpFailed(api) ==
  \E i \in 1..Len(run.http) :
    run.http[i].api = api /\ run.http[i].kind # "status_200"

C17_OneCallPerAnalysisAndIteration ==
  /\ calls = (IF analysis_call = "none" THEN 0 ELSE 1) + cycles
  /\ calls <= 1 + 5

\* a session in which the analysis request and the last reasoning request
\* failed, after five iterations
C17_Witness ==
  /\ pc = "returned"
  /\ analysis_call = "raised"
  /\ reasoning_call = "raised"
  /\ cycles = 5
  /\ calls = 6

\* step names outside the templates: two keywords in one name, capitals
ProbeSteps ==
  {"WEATHER ACTIVITY", "Contingency Activity", "Contingency", "Pack"}

\* the handler the dispatch gives each probe
ProbeKindOf == [step \in ProbeSteps |-> StepKind(step)]

\* the handler each step name goes to by the rule "first of weather,
\* activity, contingency found in the lower-cased name, else generic",
\* worked out by hand
ExpectedHandler ==
  [step \in AllSteps \cup ProbeSteps |->
     CASE step \in {"Analyze weather conditions",
                    "Research destination weather",
                    "Plan weather-appropriate activities",
                    "Check weather forecast",
                    "Plan weather-dependent tasks",
                    "WEATHER ACTIVITY"} -> "weather"
       [] step \in {"Plan activity timeline", "Finalize activity plan",
                    "Contingency Activity"} -> "activity"
       [] step \in {"Prepare contingency plans", "Contingency"}
            -> "contingency"
       [] OTHER -> "general"]

\* the status each handler reports
HandlerStatus ==
  [weather |-> "weather_analyzed", activity |-> "activities_planned",
   contingency |-> "contingencies_planned", general |-> "step_completed"]

\* the plan components, and whether this handler is the one to set each
HandlerWrote(kind) ==
  /\ plan'.weather_conditions # plan.weather_conditions
       => kind = "weather"
  /\ plan'.activities # plan.activities => kind = "activity"
  /\ plan'.contingency_plans # plan.contingency_plans
       => kind = "contingency"
  /\ kind = "weather" => plan'.weather_conditions # {}
  /\ kind = "activity" => plan'.activities # <<>>
  /\ kind = "contingency" => plan'.contingency_plans # <<>>

\* C18: in an iteration the action is "execute steps[current_step]" when
\* current_step < len(steps) and "finalize" otherwise; the step goes to
\* exactly one handler, chosen by the first of the substrings weather,
\* activity, contingency found in the lower-cased step name, else to the
\* generic handler.
C18_DispatchByFirstMatchingSubstring ==
  /\ [](\A step \in ProbeSteps : ProbeKindOf[step] = ExpectedHandler[step])
  /\ [][LoopIteration =>
          IF plan.current_step < Len(plan.steps)
            THEN LET step == plan.steps[plan.current_step + 1]
                     kind == ExpectedHandler[step]
                     done == heap'[plan.completed_steps]
                     record == done[Len(done)]
                 IN  /\ done = Append(CompletedSteps(plan), record)
                     /\ record.step = step
                     /\ record.step_index = plan.current_step
                     /\ record.result.status = HandlerStatus[kind]
                     /\ last_action' = record.result
                     /\ HandlerWrote(kind)
            ELSE /\ heap' = heap
                 /\ plan'.current_step = plan.current_step
       ]_vars

\* a contingency step has been dispatched, after a weather, a generic and
\* an activity step
C18_Witness ==
  /\ pc = "loop"
  /\ cycles = 4
  /\ last_action.status = "contingencies_planned"
  /\ CompletedSteps(plan)[2].result.status = "step_completed"

\* C19: every plan plan_weather_activity returns has status completed, a
\* completed_at time and a summary, and is the plan stored as current_plan,
\* also when the loop stopped at the cap with the completion condition
\* not met.
C19_ReturnedPlanIsFinalized ==
  pc = "returned" =>
    /\ plan.status = "completed"
    /\ plan.completed_at # NoTime
    /\ plan.completed_at >= plan.created_at
    /\ plan.summary # Absent
    /\ current_plan = plan

\* a plan returned from the cap, short of the completion condition
C19_Witness ==
  /\ pc = "returned"
  /\ exit = "cap"
  /\ ~CompletionCondition(plan)
  /\ current_plan = plan

\* C20: _analyze_task always yields a structured record: whatever text the
\* endpoint returns (no JSON, a JSON object, a JSON value that is no
\* object), plan_weather_activity builds the plan and does not raise.
C20_EveryAnalysisGivesAPlan ==
  /\ pc \in {"create", "loop", "finalize", "returned"}
       => task_analysis.json = "object"
  /\ (pc = "raised" /\ cycles = 0) => analysis_call = "none"

----------------------------------------------------------------------------
(* Properties of the executed steps and of the confidence                  *)

\* C21: with the configured templates (5 steps each) and 5 iterations at
\* most, no loop iteration selects the finalize_plan action, so
\* _execute_action never reaches its call of the undefined
\* _finalize_planning (AttributeError).
C21_FinalizeIsNeverSelectedInTheLoop ==
  /\ [](pc = "loop" /\ planning_iteration < 5
          => DetermineNextAction(plan).type = "execute_step")
  /\ []((pc = "raised" /\ cycles >= 1) => error # "AttributeError")
  /\ [][LoopIteration => plan.current_step < Len(plan.steps)]_vars

\* the fifth iteration has executed the last template step and the loop is
\* left at the cap
C21_Witness ==
  /\ pc = "finalize"
  /\ exit = "cap"
  /\ planning_iteration = 5
  /\ last_action.status = "step_completed"
  /\ plan.current_step = Len(plan.steps)

\* C22: in every reachable plan state len(completed_steps) = current_step,
\* and the i-th completed_steps entry (counted from 0) records step_index i
\* and the step name steps[i].
C22_CompletedStepsMirrorCurrentStep ==
  HasPlan =>
    /\ Len(CompletedSteps(plan)) = plan.current_step
    /\ \A i \in 0..(plan.current_step - 1) :
         /\ CompletedSteps(plan)[i + 1].step_index = i
         /\ CompletedSteps(plan)[i + 1].step = plan.steps[i + 1]

\* three steps of a plan are done and recorded
C22_Witness ==
  /\ pc = "loop"
  /\ plan.current_step = 3
  /\ Len(CompletedSteps(plan)) = 3
  /\ CompletedSteps(plan)[3].step = "Pack appropriate clothing"

\* C23: after an iteration whose action result has success = true the
\* confidence is min(previous + 0.1, 1.0), after one whose result has no
\* true success it is max(previous - 0.1, 0.0); nothing else changes the
\* confidence while the loop runs or when the plan is finalized.
C23_ConfidenceMovesByOneTenth ==
  [][(HasPlan /\ HasPlan') =>
       IF LoopIteration
         THEN plan'.confidence =
                IF last_action'.success
                  THEN Number(Min(plan.confidence.tenths + 1, 10))
                  ELSE Number(Max(plan.confidence.tenths - 1, 0))
         ELSE plan'.confidence = plan.confidence
    ]_vars

\* C24: every action result produced inside the planning loop has success =
\* true, so no reachable plan state, live or recorded in the history, has
\* status planning_failed, and the confidence never decreases from one
\* iteration to the next.
C24_EverySuccessAndConfidenceNeverFalls ==
  /\ [](cycles >= 1 => last_action.success)
  /\ [](HasPlan =>
          /\ plan.status # "planning_failed"
          /\ \A i \in 1..Len(CompletedSteps(plan)) :
               CompletedSteps(plan)[i].result.success)
  /\ [](\A i \in 1..Len(planning_history) :
          /\ planning_history[i].action_result.success
          /\ planning_history[i].plan_state.status # "planning_failed")
  /\ [][(HasPlan /\ HasPlan') =>
          plan'.confidence.tenths >= plan.confidence.tenths]_vars

----------------------------------------------------------------------------
(* Properties of the steps of run() of the Fixed-Automation agents         *)

\* the positions of run() that follow one another
RunOrder ==
  {<<"idle", "fetch">>, <<"fetch", "parse">>, <<"parse", "generate">>,
   <<"generate", "save">>, <<"save", "done">>,
   <<"fetch", "done">>, <<"parse", "done">>, <<"done", "idle">>}

\* the data the parser of this agent cannot read, by the keys it indexes
ParseMustRaise(agent, data) ==
  IF agent = "weather"
    THEN data \in {"missing_key", "not_object"}
    ELSE data = "not_object"

\* C25: run executes fetch, parse, generate, save in this order; save_report
\* is called, and a file written, only after the three earlier steps have
\* returned; when fetch or parse raises, no report file is written and run
\* returns False.
C25_FixedStepOrder ==
  /\ [][run.pc' # run.pc => <<run.pc, run.pc'>> \in RunOrder]_vars
  /\ [][files' # files =>
          /\ run.pc = "save"
          /\ run.data # "none"
          /\ run.parsed # NoParsed
          /\ run.report # ""
          /\ Len(run.http) = 2]_vars
  /\ []((run.pc = "done"
           /\ (run.data = "none" \/ ParseMustRaise(run.agent, run.data)))
          => /\ run.returned = "False"
             /\ run.error # NoError
             /\ run.filepath = Absent
             /\ files = run.files_before)

\* after a run that saved its report, a run whose parse step raised
C25_Witness ==
  /\ run.pc = "done"
  /\ run.number = 2
  /\ run.files_before # {}
  /\ run.error = "KeyError"
  /\ run.returned = "False"

\* the ways the generation request of generate_report fails: no answer, a
\* status other than 200, a body that is no JSON, a null response field
SummaryCallFailed(outcome) ==
  \/ outcome.kind \in {"connection_error", "timeout", "status_500"}
  \/ outcome.kind = "status_200"
       /\ outcome.body \in {"not_json", "response_null"}

----------------------------------------------------------------------------
(* Properties of LLMWeatherAgent                                           *)

\* the last n entries of a list
LastEntries(h, n) == SubSeq(h, Max(Len(h) - n, 0) + 1, Len(h))

\* C27: after any sequence of process_natural_language_query and
\* clear_conversation_history calls, conversation_history has at most 10
\* entries, and they are the most recent recorded interactions in
\* chronological order.
C27_HistoryKeepsTheLastTen ==
  /\ Len(chat.conversation_history) <= 10
  /\ chat.conversation_history = LastEntries(chat.recorded, 10)
  /\ \A i \in 1..(Len(chat.conversation_history) - 1) :
       chat.conversation_history[i].timestamp
         < chat.conversation_history[i + 1].timestamp

\* the eleventh interaction has pushed the first one out
C27_Witness ==
  /\ chat.pc = "done"
  /\ Len(chat.recorded) = 11
  /\ Len(chat.conversation_history) = 10
  /\ chat.conversation_history[1].timestamp = 1
  /\ chat.conversation_history[10].timestamp = 10

\* C28: whenever _is_query_allowed rejects an analysis, and it always
\* rejects the fallback analysis (intent unknown, confidence 0.0) used when
\* the analysis call failed, process_natural_language_query returns the
\* boundary-error response, makes no second endpoint call and leaves
\* conversation_history unchanged.
C28_RejectionReturnsBoundaryError ==
  /\ (chat.analysis_call \in {"raised", "not_json"}) =>
       /\ chat.query_analysis.intent = "unknown"
       /\ chat.query_analysis.confidence = Number(0)
       /\ chat.allowed = "False"
  /\ chat.allowed = "False" =>
       /\ chat.pc = "done"
       /\ chat.error = NoError
       /\ chat.response = GenerateBoundaryErrorResponse(chat.user_query)
       /\ chat.calls = 1
       /\ chat.conversation_history = chat.history_before

\* a query whose analysis request failed is turned away, with earlier
\* interactions in the history
C28_Witness ==
  /\ chat.pc = "done"
  /\ chat.analysis_call = "raised"
  /\ chat.allowed = "False"
  /\ Len(chat.conversation_history) = 2

\* some allowed domain is a substring of the lower-cased intent
NamesAllowedDomain ==
  [intent \in IntentStrings \cup {""} |->
     \E domain \in ALLOWED_DOMAINS :
       Contains(Lower(Chars(domain)), Lower(Chars(intent)))]

\* C29: _is_query_allowed accepts an analysis only if the query is within
\* the allowed domains (ALLOWED_DOMAINS) and violates no safety constraint:
\* an analysis whose intent names no allowed domain is rejected whatever
\* its confidence.
C29_AllowedOnlyWithinAllowedDomains ==
  chat.allowed = "True" =>
    /\ NamesAllowedDomain[Get(chat.query_analysis, "intent", "")]
    /\ ~ViolatesConstraint[Get(chat.query_analysis, "intent", "")]

----------------------------------------------------------------------------
(* Properties of two planning sessions                                     *)

\* the completed_steps records of an agent's plan without their
\* completed_at
CompletedStepResults(s) ==
  IF s.plan.completed_steps = 0
    THEN <<>>
    ELSE [i \in DOMAIN s.heap[s.plan.completed_steps] |->
            [step_index |-> s.heap[s.plan.completed_steps][i].step_index,
             step |-> s.heap[s.plan.completed_steps][i].step,
             result |-> s.heap[s.plan.completed_steps][i].result]]

\* the plan of an agent's running call without created_at, completed_at
\* and the summary text, which prints the two
PlanFields(s) ==
  [task_type |-> s.plan.task_type,
   steps |-> s.plan.steps,
   current_step |-> s.plan.current_step,
   completed_steps |-> CompletedStepResults(s),
   weather_conditions |-> s.plan.weather_conditions,
   activities |-> s.plan.activities,
   contingency_plans |-> s.plan.contingency_plans,
   confidence |-> s.plan.confidence,
   status |-> s.plan.status]

\* C30: the step handlers are deterministic: two planning sessions that
\* receive the same sequence of endpoint outcomes are at the same place,
\* with the same exception if any, and their plans are equal in every
\* field except the timestamps (task_type, steps, current_step, completed
\* step results, weather_conditions, activities, contingency_plans,
\* confidence, status).
C30_SameOutcomesGiveTheSamePlan ==
  /\ twin.a.pc = twin.b.pc
  /\ twin.a.error = twin.b.error
  /\ PlanFields(twin.a) = PlanFields(twin.b)

\* two finished sessions, one on a new agent and one on an agent with an
\* earlier session behind it, with different timestamps and all results in
C30_Witness ==
  /\ twin.round = 2
  /\ twin.a.pc = "returned" /\ twin.b.pc = "returned"
  /\ twin.a.plan.created_at # twin.b.plan.created_at
  /\ twin.a.plan.completed_at # twin.b.plan.completed_at
  /\ twin.a.plan.completed_steps # twin.b.plan.completed_steps
  /\ Len(twin.a.planning_history) < Len(twin.b.planning_history)
  /\ Len(CompletedStepResults(twin.b)) = 5
  /\ twin.b.plan.contingency_plans # <<>>

====
